---- MODULE Spec2Model ----
(***************************************************************************)
(* The CUPS backend onenote_backend.c as a state machine.  Two invocations *)
(* of main() run concurrently and share the filesystem: the scratch        *)
(* directory (mkstemp), the queue directories and the Incoming directory.  *)
(* A step is one system call, or a few in a row, with the results the       *)
(* environment may give them.                                              *)
(***************************************************************************)
EXTENDS Integers, Sequences, FiniteSets, TLC

VARIABLES
    argc, job_id, user, title, input,       \* argv and the byte source
    pc, ret,                                \* position in main, exit status
    templatePath, scratch,                  \* mkstemp name, scratch directory
    inpos, buffer, off, total_written, wn,  \* capture loop (lines 126-149)
    ext, sniffErr,                          \* format sniff (lines 156-163)
    pw,                                     \* getpwnam result (line 165)
    dirs,                                   \* queue directories
    destDoc, destJson, incoming,            \* destination paths, queue files
    cpos, cbuf, coff, w,                    \* copy_file locals (lines 62-75)
    escTitle, jfErr,                        \* escaped title, FILE error flag
    errlog                                  \* the last diagnostic on stderr

args  == <<argc, job_id, user, title, input>>
capt  == <<inpos, buffer, off, total_written, wn>>
copyv == <<cpos, cbuf, coff, w>>
vars  == <<argc, job_id, user, title, input, pc, ret, templatePath, scratch,
           inpos, buffer, off, total_written, wn, ext, sniffErr, pw, dirs,
           destDoc, destJson, incoming, cpos, cbuf, coff, w, escTitle, jfErr, errlog>>

----------------------------------------------------------------------------
(* Bounds of the model *)

MaxPayload == 4     \* longest byte source of SpecCapture
MaxTitle == 4       \* longest title of SpecEsc
BufSize == 2        \* chunk size of read(): sizeof(buffer), scaled down
EscCap == 4         \* sizeof(escTitle), scaled down
MaxTime == 0        \* time(NULL) returns a second in 0..MaxTime

(* Program constants *)

SniffBuf == 16      \* char buf[16] in file_starts_with
NDirs == 5          \* sizeof(dirs)/sizeof(dirs[0])

----------------------------------------------------------------------------
(* Values *)

Procs == {1, 2}
NoFile == [data |-> <<>>, owner |-> "none", mode |-> "absent"]
NoPath == [dir |-> "none", job |-> 0, ts |-> 0, ext |-> "none"]
OK == "CUPS_BACKEND_OK"
FAILED == "CUPS_BACKEND_FAILED"
BACKEND == "backend"            \* identity the backend process runs as

PS_MAGIC == <<"%", "!", "P", "S">>
PDF_MAGIC == <<"%", "P", "D", "F">>

\* Title characters: the five the escape loop treats specially, and two
\* plain ones ("n" is the letter n, "nl" the newline byte).
DQ == "dq"
BSL == "bs"
NL == "nl"
CR == "cr"
TAB == "tab"
TitleChars == {DQ, BSL, NL, CR, TAB, "n", "a"}

Users == {"alice", "ghost"}
KnownUsers == {"alice"}         \* the users getpwnam resolves

JobIds == {101, 102}
Times == 0..MaxTime
\* The queue root and its four stage directories (line 177), and the file
\* names a stage directory can hold.
DirNames == <<"OneNoteQueue", "Incoming", "Processing", "Done", "Failed">>
Stages == {DirNames[d] : d \in 2..NDirs}
Paths == [dir : Stages, job : JobIds, ts : Times, ext : {"ps", "pdf", "json"}]
TmpNames == {"t1", "t2"}    \* names mkstemp can choose from

Min(a, b) == IF a < b THEN a ELSE b

RECURSIVE SeqsUpTo(_, _)
SeqsUpTo(S, n) ==
    IF n = 0 THEN {<<>>}
    ELSE LET shorter == SeqsUpTo(S, n - 1)
         IN  shorter \cup {Append(s, c) : s \in {t \in shorter : Len(t) = n - 1}, c \in S}

IsPrefix(s, t) == Len(s) <= Len(t) /\ SubSeq(t, 1, Len(s)) = s

File(data, owner, mode) == [data |-> data, owner |-> owner, mode |-> mode]
Exists(f) == f.mode # "absent"

\* open(path, O_WRONLY | O_CREAT | O_TRUNC, 0644) and fopen(path, "w"): an
\* existing file is emptied and keeps its owner and mode, a missing one is
\* created by the backend's identity.
CreateTrunc(f) == IF Exists(f) THEN [f EXCEPT !.data = <<>>] ELSE File(<<>>, BACKEND, "0644")

----------------------------------------------------------------------------
(* file_starts_with (lines 14-24): the bytes read() returns are the first   *)
(* SniffBuf bytes of the file; openErr stands for open() or read() failing. *)

file_starts_with(data, prefix, openErr) ==
    LET n == Min(Len(data), SniffBuf)
    IN  IF openErr THEN FALSE
        ELSE IF n <= 0 THEN FALSE
        ELSE IF n < Len(prefix) THEN FALSE
        ELSE SubSeq(data, 1, Len(prefix)) = prefix

\* ChooseExt with the PostScript branch taken for either marker.
ChooseExt_Both(data, err1, err2) ==
    IF file_starts_with(data, PS_MAGIC, err1) \/ file_starts_with(data, PDF_MAGIC, err2)
    THEN "ps" ELSE "pdf"

\* Lines 157-163: the extension chosen from the two sniffs.
ChooseExt(data, err1, err2) ==
    IF file_starts_with(data, PS_MAGIC, err1) THEN "ps"
    ELSE IF file_starts_with(data, PDF_MAGIC, err2) THEN "pdf"
    ELSE "pdf"

----------------------------------------------------------------------------
(* The title escape loop (lines 210-226).  out is escTitle[0..ei-1], so ei  *)
(* is Len(out); i is one past the index of the C loop.                      *)

\* EscLoop with "continue" for "break" when an escape pair has no room.
RECURSIVE EscLoop_Skip(_, _, _)
EscLoop_Skip(t, i, out) ==
    IF i > Len(t) \/ ~(Len(out) < EscCap - 1) THEN out
    ELSE LET c == t[i]
         IN  IF c = DQ \/ c = BSL
             THEN IF Len(out) + 2 >= EscCap THEN EscLoop_Skip(t, i + 1, out)
                  ELSE EscLoop_Skip(t, i + 1, out \o <<BSL, c>>)
             ELSE IF c = NL \/ c = CR \/ c = TAB
             THEN IF Len(out) + 2 >= EscCap THEN EscLoop_Skip(t, i + 1, out)
                  ELSE EscLoop_Skip(t, i + 1,
                               out \o <<BSL, IF c = NL THEN "n" ELSE IF c = CR THEN "r" ELSE "t">>)
             ELSE EscLoop_Skip(t, i + 1, Append(out, c))

\* EscLoop without the room checks of lines 215 and 219.
RECURSIVE EscLoop_NoRoom(_, _, _)
EscLoop_NoRoom(t, i, out) ==
    IF i > Len(t) \/ ~(Len(out) < EscCap - 1) THEN out
    ELSE LET c == t[i]
         IN  IF c = DQ \/ c = BSL
             THEN EscLoop_NoRoom(t, i + 1, out \o <<BSL, c>>)
             ELSE IF c = NL \/ c = CR \/ c = TAB
             THEN EscLoop_NoRoom(t, i + 1,
                               out \o <<BSL, IF c = NL THEN "n" ELSE IF c = CR THEN "r" ELSE "t">>)
             ELSE EscLoop_NoRoom(t, i + 1, Append(out, c))

RECURSIVE EscLoop(_, _, _)
EscLoop(t, i, out) ==
    IF i > Len(t) \/ ~(Len(out) < EscCap - 1) THEN out
    ELSE LET c == t[i]
         IN  IF c = DQ \/ c = BSL
             THEN IF Len(out) + 2 >= EscCap THEN out
                  ELSE EscLoop(t, i + 1, out \o <<BSL, c>>)
             ELSE IF c = NL \/ c = CR \/ c = TAB
             THEN IF Len(out) + 2 >= EscCap THEN out
                  ELSE EscLoop(t, i + 1,
                               out \o <<BSL, IF c = NL THEN "n" ELSE IF c = CR THEN "r" ELSE "t">>)
             ELSE EscLoop(t, i + 1, Append(out, c))

EscapeTitle(t) == EscLoop(t, 1, <<>>)

\* Lines 233-240: the four fields fprintf writes, in order.
SidecarFields(doc, esc, u, job) == <<doc, esc, u, job>>

\* DocPath that forms the path in the Processing directory.
DocPath_Processing(job, now, e) == [dir |-> "Processing", job |-> job, ts |-> now, ext |-> e]

\* Lines 188-193: the two destination paths, both in incomingDir.
DocPath(job, now, e) == [dir |-> "Incoming", job |-> job, ts |-> now, ext |-> e]
JsonPath(job, now) == [dir |-> "Incoming", job |-> job, ts |-> now, ext |-> "json"]

\* write() of new at offset 0 of a file that holds old.
WriteAt0(old, new) == new \o SubSeq(old, Len(new) + 1, Len(old))

\* Written with the offset forgotten: write(fd, buf, n - off).
Written_NoOff(buf, o, k) == SubSeq(buf, 1, k)

\* The bytes write(fd, buf + off, n - off) takes when it returns w.
Written(buf, o, k) == SubSeq(buf, o + 1, o + k)

\* MkstempNames without O_EXCL: a name in use may be taken again.
MkstempNames_NoExcl(scr) == TmpNames

\* The names mkstemp may return: it creates the file with O_EXCL.
MkstempNames(scr) == {nm \in TmpNames : ~Exists(scr[nm])}

\* CopyStatus with the read error dropped: return 0.
CopyStatus_Zero(n) == 0

\* Line 79: what copy_file returns once its read loop ends with n.
CopyStatus(n) == IF n < 0 THEN -1 ELSE 0

\* AfterWrite with the stream's error turned into the failure status, the
\* sidecar left where it is.
AfterWrite_Checked(err) == IF err THEN FAILED ELSE OK

\* Line 250: what main returns once fprintf and fclose have run; the stream's
\* error indicator err is never looked at.
AfterWrite(err) == OK

----------------------------------------------------------------------------
(* Initial states: the invocations the spooler may launch.  Job identifiers *)
(* of concurrent invocations are distinct (the spooler's numbering).        *)

Arg(c, j, u, t, in) == [argc |-> c, job_id |-> j, user |-> u, title |-> t, input |-> in]

\* Byte sources of a single job: one of each class the sniffer tells apart.
SniffCases ==
    {<<>>, <<"%">>, <<"%", "!", "P">>, PS_MAGIC, PS_MAGIC \o <<"-">>,
     PDF_MAGIC, PDF_MAGIC \o <<"-">>, <<"-", "%", "!", "P", "S">>, <<"a", "b">>}

\* A discovery-mode invocation (argc = 1) carries no job arguments.
Discover == Arg(1, 102, "alice", <<>>, <<>>)

Configs ==
    \* two concurrent jobs with distinct identifiers
    {<<Arg(6, 101, "alice", <<"a">>, <<"a">>), Arg(6, 102, "alice", <<DQ>>, <<"b">>)>>}
    \* one job read from stdin, with a discovery probe beside it
    \cup {<<Arg(6, 101, u, <<"a", DQ>>, in), Discover>> : u \in Users, in \in SniffCases}
    \* one job read from a file
    \cup {<<Arg(7, 101, "alice", <<"a">>, <<"a", "b">>), Discover>>}
    \* a malformed argument count
    \cup {<<Arg(c, 101, "alice", <<"a">>, <<"a">>), Discover>> : c \in {3, 8}}

InitLocals ==
    /\ pc = [p \in Procs |-> "start"]
    /\ ret = [p \in Procs |-> "none"]
    /\ templatePath = [p \in Procs |-> "none"]
    /\ scratch = [nm \in TmpNames |-> NoFile]
    /\ inpos = [p \in Procs |-> 0]
    /\ buffer = [p \in Procs |-> <<>>]
    /\ off = [p \in Procs |-> 0]
    /\ total_written = [p \in Procs |-> 0]
    /\ wn = [p \in Procs |-> 0]
    /\ ext = [p \in Procs |-> "pdf"]
    /\ sniffErr = [p \in Procs |-> FALSE]
    /\ pw = [p \in Procs |-> "null"]
    /\ dirs = [d \in 1..NDirs |-> "absent"]
    /\ destDoc = [p \in Procs |-> NoPath]
    /\ destJson = [p \in Procs |-> NoPath]
    /\ incoming = [path \in Paths |-> NoFile]
    /\ cpos = [p \in Procs |-> 0]
    /\ cbuf = [p \in Procs |-> <<>>]
    /\ coff = [p \in Procs |-> 0]
    /\ w = [p \in Procs |-> 0]
    /\ escTitle = [p \in Procs |-> <<>>]
    /\ jfErr = [p \in Procs |-> FALSE]
    /\ errlog = [p \in Procs |-> ""]

InitArgs(cfg) ==
    /\ argc = [p \in Procs |-> cfg[p].argc]
    /\ job_id = [p \in Procs |-> cfg[p].job_id]
    /\ user = [p \in Procs |-> cfg[p].user]
    /\ title = [p \in Procs |-> cfg[p].title]
    /\ input = [p \in Procs |-> cfg[p].input]

Init == (\E cfg \in Configs : InitArgs(cfg)) /\ InitLocals

----------------------------------------------------------------------------
(* The steps of main.  rest(p) is what a step of p leaves alone besides pc, *)
(* ret and errlog.                                                          *)

Goto(p, l) == pc' = [pc EXCEPT ![p] = l] /\ UNCHANGED <<ret, errlog>>
Return(p, r, msg) ==
    /\ pc' = [pc EXCEPT ![p] = "done"]
    /\ ret' = [ret EXCEPT ![p] = r]
    /\ errlog' = [errlog EXCEPT ![p] = msg]

\* Discovery that prepares the queue directories before it returns.
Discovery_Dirs(p) ==
    /\ pc[p] = "start"
    /\ argc[p] = 1
    /\ dirs' = [d \in 1..NDirs |-> "01777"]
    /\ Return(p, OK, "")
    /\ UNCHANGED <<args, templatePath, scratch, capt, ext, sniffErr, pw,
                   destDoc, destJson, incoming, copyv, escTitle, jfErr>>

\* Lines 84-86.
Discovery(p) ==
    /\ pc[p] = "start"
    /\ argc[p] = 1
    /\ Return(p, OK, "")
    /\ UNCHANGED <<args, templatePath, scratch, capt, ext, sniffErr, pw, dirs,
                   destDoc, destJson, incoming, copyv, escTitle, jfErr>>

\* UsageError that counts the arguments only after mkstemp.
UsageError_Late(p) ==
    /\ pc[p] = "start"
    /\ argc[p] # 1
    /\ argc[p] # 6 /\ argc[p] # 7
    /\ \E nm \in {n \in TmpNames : scratch[n] = NoFile} :
        /\ scratch' = [scratch EXCEPT ![nm] = File(<<>>, BACKEND, "0600")]
        /\ templatePath' = [templatePath EXCEPT ![p] = nm]
    /\ Return(p, FAILED, "invalid argc")
    /\ UNCHANGED <<args, capt, ext, sniffErr, pw, dirs,
                   destDoc, destJson, incoming, copyv, escTitle, jfErr>>

\* Lines 88-91.
UsageError(p) ==
    /\ pc[p] = "start"
    /\ argc[p] # 1
    /\ argc[p] # 6 /\ argc[p] # 7
    /\ Return(p, FAILED, "invalid argc")
    /\ UNCHANGED <<args, templatePath, scratch, capt, ext, sniffErr, pw, dirs,
                   destDoc, destJson, incoming, copyv, escTitle, jfErr>>

\* Lines 103-124: mkstemp creates an empty file of mode 0600, or fails; the
\* input is stdin unless a seventh argument names a file, which is opened.
MkTemp(p) ==
    /\ pc[p] = "start"
    /\ argc[p] = 6 \/ argc[p] = 7
    /\ \/ /\ Return(p, FAILED, "failed to create temp file")        \* outfd < 0
          /\ UNCHANGED <<scratch, templatePath>>
       \/ \E nm \in MkstempNames(scratch) :
            /\ scratch' = [scratch EXCEPT ![nm] = File(<<>>, BACKEND, "0600")]
            /\ templatePath' = [templatePath EXCEPT ![p] = nm]
            /\ \/ Goto(p, "read")
               \/ /\ argc[p] = 7                                    \* infd < 0
                  /\ Return(p, FAILED, "failed to open input file")
    /\ UNCHANGED <<args, capt, ext, sniffErr, pw, dirs,
                   destDoc, destJson, incoming, copyv, escTitle, jfErr>>

\* Line 129 and lines 144-152: one read() of at most sizeof(buffer) bytes.
CaptureRead(p) ==
    /\ pc[p] = "read"
    /\ \/ \E n \in 1..Min(BufSize, Len(input[p]) - inpos[p]) :
            /\ buffer' = [buffer EXCEPT ![p] = SubSeq(input[p], inpos[p] + 1, inpos[p] + n)]
            /\ inpos' = [inpos EXCEPT ![p] = @ + n]
            /\ off' = [off EXCEPT ![p] = 0]
            /\ Goto(p, "write")
       \/ /\ inpos[p] = Len(input[p])                       \* n = 0: end of input
          /\ buffer' = [buffer EXCEPT ![p] = <<>>]
          /\ Goto(p, "sniff")
          /\ UNCHANGED <<inpos, off>>
       \/ /\ Return(p, FAILED, "failed to read input data") \* n < 0
          /\ UNCHANGED <<buffer, inpos, off>>
    /\ UNCHANGED <<args, templatePath, scratch, total_written, wn, ext, sniffErr, pw, dirs,
                   destDoc, destJson, incoming, copyv, escTitle, jfErr>>

\* Lines 131-141: one write() of the rest of the chunk; it may be short.
CaptureWrite(p) ==
    /\ pc[p] = "write"
    /\ off[p] < Len(buffer[p])
    /\ \/ \E r \in 0..(Len(buffer[p]) - off[p]) :
            /\ scratch' = [scratch EXCEPT ![templatePath[p]].data =
                                @ \o Written(buffer[p], off[p], r)]
            /\ off' = [off EXCEPT ![p] = @ + r]
            /\ total_written' = [total_written EXCEPT ![p] = @ + r]
            /\ Goto(p, IF off[p] + r < Len(buffer[p]) THEN "write" ELSE "read")
       \/ /\ Return(p, FAILED, "failed to write temp file") \* wn < 0
          /\ UNCHANGED <<scratch, off, total_written>>
    /\ UNCHANGED <<args, templatePath, inpos, buffer, wn, ext, sniffErr, pw, dirs,
                   destDoc, destJson, incoming, copyv, escTitle, jfErr>>

\* Lines 156-163: both sniffs open the temp file read-only; err1 and err2
\* are open() or read() failing in the first and in the second.
Sniff(p) ==
    /\ pc[p] = "sniff"
    /\ \E err1 \in BOOLEAN, err2 \in BOOLEAN :
        /\ ext' = [ext EXCEPT ![p] = ChooseExt(scratch[templatePath[p]].data, err1, err2)]
        /\ sniffErr' = [sniffErr EXCEPT ![p] = err1]
    /\ Goto(p, "getpw")
    /\ UNCHANGED <<args, templatePath, scratch, capt, pw, dirs,
                   destDoc, destJson, incoming, copyv, escTitle, jfErr>>

\* GetPw that goes on when the user does not resolve.
GetPw_NoCheck(p) ==
    /\ pc[p] = "getpw"
    /\ pw' = [pw EXCEPT ![p] = user[p]]
    /\ Goto(p, "dirs")
    /\ UNCHANGED <<args, templatePath, scratch, capt, ext, sniffErr, dirs,
                   destDoc, destJson, incoming, copyv, escTitle, jfErr>>

\* Lines 165-169.
GetPw(p) ==
    /\ pc[p] = "getpw"
    /\ IF user[p] \in KnownUsers
       THEN pw' = [pw EXCEPT ![p] = user[p]] /\ Goto(p, "dirs")
       ELSE pw' = pw /\ Return(p, FAILED, "getpwnam failed")
    /\ UNCHANGED <<args, templatePath, scratch, capt, ext, sniffErr, dirs,
                   destDoc, destJson, incoming, copyv, escTitle, jfErr>>

\* Lines 171-193: the five directories in order; mkdir of a missing one may
\* fail; each directory that is ensured is then chmod-ed 01777.  Then
\* time(NULL) returns the current second and the two paths are formatted.
EnsureDirs(p) ==
    /\ pc[p] = "dirs"
    /\ \E k \in 0..NDirs :
        /\ k < NDirs => dirs[k + 1] = "absent"
        /\ dirs' = [d \in 1..NDirs |-> IF d <= k THEN "01777" ELSE dirs[d]]
        /\ IF k = NDirs
           THEN \E now \in Times :
                    /\ destDoc' = [destDoc EXCEPT ![p] = DocPath(job_id[p], now, ext[p])]
                    /\ destJson' = [destJson EXCEPT ![p] = JsonPath(job_id[p], now)]
                    /\ Goto(p, "rename")
           ELSE /\ Return(p, FAILED, "failed to create dir")
                /\ UNCHANGED <<destDoc, destJson>>
    /\ UNCHANGED <<args, templatePath, scratch, capt, ext, sniffErr, pw,
                   incoming, copyv, escTitle, jfErr>>

----------------------------------------------------------------------------
(* Staging: rename, else copy_file and unlink (lines 195-202, 52-80) *)

\* Rename that leaves a destination that is already there.
Rename_KeepOld(p) ==
    /\ pc[p] = "rename"
    /\ \/ /\ incoming' = [incoming EXCEPT ![destDoc[p]] =
                                IF Exists(@) THEN @ ELSE scratch[templatePath[p]]]
          /\ scratch' = [scratch EXCEPT ![templatePath[p]] = NoFile]
          /\ Goto(p, "chown_doc")
       \/ /\ Goto(p, "copy_open")
          /\ UNCHANGED <<incoming, scratch>>
    /\ UNCHANGED <<args, templatePath, capt, ext, sniffErr, pw, dirs,
                   destDoc, destJson, copyv, escTitle, jfErr>>

\* Line 196: rename moves the temp file, owner and mode included, onto the
\* destination in one step, or fails and changes nothing.
Rename(p) ==
    /\ pc[p] = "rename"
    /\ \/ /\ incoming' = [incoming EXCEPT ![destDoc[p]] = scratch[templatePath[p]]]
          /\ scratch' = [scratch EXCEPT ![templatePath[p]] = NoFile]
          /\ Goto(p, "chown_doc")
       \/ /\ Goto(p, "copy_open")
          /\ UNCHANGED <<incoming, scratch>>
    /\ UNCHANGED <<args, templatePath, capt, ext, sniffErr, pw, dirs,
                   destDoc, destJson, copyv, escTitle, jfErr>>

\* CopyOpen that removes the temp file when the destination cannot be made.
CopyOpen_Cleanup(p) ==
    /\ pc[p] = "copy_open"
    /\ \/ /\ Return(p, FAILED, "failed to move/copy")
          /\ UNCHANGED <<incoming, cpos, scratch>>
       \/ /\ Return(p, FAILED, "failed to move/copy")
          /\ scratch' = [scratch EXCEPT ![templatePath[p]] = NoFile]
          /\ UNCHANGED <<incoming, cpos>>
       \/ /\ incoming' = [incoming EXCEPT ![destDoc[p]] = CreateTrunc(@)]
          /\ cpos' = [cpos EXCEPT ![p] = 0]
          /\ Goto(p, "copy_read")
          /\ UNCHANGED scratch
    /\ UNCHANGED <<args, templatePath, capt, ext, sniffErr, pw, dirs,
                   destDoc, destJson, cbuf, coff, w, escTitle, jfErr>>

\* Lines 53-60 (and 197-200): open the source, then create or truncate the
\* destination.
CopyOpen(p) ==
    /\ pc[p] = "copy_open"
    /\ \/ /\ Return(p, FAILED, "failed to move/copy")       \* in < 0
          /\ UNCHANGED <<incoming, cpos>>
       \/ /\ Return(p, FAILED, "failed to move/copy")       \* out < 0
          /\ UNCHANGED <<incoming, cpos>>
       \/ /\ incoming' = [incoming EXCEPT ![destDoc[p]] = CreateTrunc(@)]
          /\ cpos' = [cpos EXCEPT ![p] = 0]
          /\ Goto(p, "copy_read")
    /\ UNCHANGED <<args, templatePath, scratch, capt, ext, sniffErr, pw, dirs,
                   destDoc, destJson, cbuf, coff, w, escTitle, jfErr>>

\* Line 64 and lines 77-79 (and 197-200): one read() of the temp file; when
\* the loop ends with n <= 0, copy_file returns CopyStatus(n).
CopyRead(p) ==
    /\ pc[p] = "copy_read"
    /\ LET src == scratch[templatePath[p]].data
       IN  \/ \E n \in 1..Min(BufSize, Len(src) - cpos[p]) :
                /\ cbuf' = [cbuf EXCEPT ![p] = SubSeq(src, cpos[p] + 1, cpos[p] + n)]
                /\ cpos' = [cpos EXCEPT ![p] = @ + n]
                /\ coff' = [coff EXCEPT ![p] = 0]
                /\ Goto(p, "copy_write")
           \/ \E n \in {-1, 0} :
                /\ n = 0 => cpos[p] = Len(src)              \* end of file
                /\ cbuf' = [cbuf EXCEPT ![p] = <<>>]
                /\ IF CopyStatus(n) # 0
                   THEN Return(p, FAILED, "failed to move/copy")
                   ELSE Goto(p, "unlink")
                /\ UNCHANGED <<cpos, coff>>
    /\ UNCHANGED <<args, templatePath, scratch, capt, ext, sniffErr, pw, dirs,
                   destDoc, destJson, incoming, w, escTitle, jfErr>>

\* Lines 66-74 (and 197-200): one write() to the destination.
CopyWrite(p) ==
    /\ pc[p] = "copy_write"
    /\ coff[p] < Len(cbuf[p])
    /\ \/ \E r \in 0..(Len(cbuf[p]) - coff[p]) :
            /\ incoming' = [incoming EXCEPT ![destDoc[p]].data =
                                @ \o Written(cbuf[p], coff[p], r)]
            /\ coff' = [coff EXCEPT ![p] = @ + r]
            /\ Goto(p, IF coff[p] + r < Len(cbuf[p]) THEN "copy_write" ELSE "copy_read")
       \/ /\ Return(p, FAILED, "failed to move/copy")       \* w < 0
          /\ UNCHANGED <<incoming, coff>>
    /\ UNCHANGED <<args, templatePath, scratch, capt, ext, sniffErr, pw, dirs,
                   destDoc, destJson, cpos, cbuf, w, escTitle, jfErr>>

\* Line 201: the result of unlink is ignored.
Unlink(p) ==
    /\ pc[p] = "unlink"
    /\ \/ scratch' = [scratch EXCEPT ![templatePath[p]] = NoFile]
       \/ scratch' = scratch
    /\ Goto(p, "chown_doc")
    /\ UNCHANGED <<args, templatePath, capt, ext, sniffErr, pw, dirs,
                   destDoc, destJson, incoming, copyv, escTitle, jfErr>>

----------------------------------------------------------------------------
(* Ownership of the document, the sidecar, ownership of the sidecar *)

\* chown(path, uid, gid) then chmod(path, 0644); neither result stops main.
Normalize(f, owner, chownOk, chmodOk) ==
    [f EXCEPT !.owner = IF chownOk THEN owner ELSE @,
              !.mode = IF chmodOk THEN "0644" ELSE @]

\* ChownDoc that gives up when chown fails.
ChownDoc_Fatal(p) ==
    /\ pc[p] = "chown_doc"
    /\ \/ /\ \E chmodOk \in BOOLEAN :
                incoming' = [incoming EXCEPT ![destDoc[p]] = Normalize(@, pw[p], TRUE, chmodOk)]
          /\ Goto(p, "escape")
       \/ /\ Return(p, FAILED, "chown failed")
          /\ UNCHANGED incoming
    /\ UNCHANGED <<args, templatePath, scratch, capt, ext, sniffErr, pw, dirs,
                   destDoc, destJson, copyv, escTitle, jfErr>>

\* Lines 204-207.
ChownDoc(p) ==
    /\ pc[p] = "chown_doc"
    /\ \E chownOk \in BOOLEAN, chmodOk \in BOOLEAN :
        incoming' = [incoming EXCEPT ![destDoc[p]] = Normalize(@, pw[p], chownOk, chmodOk)]
    /\ Goto(p, "escape")
    /\ UNCHANGED <<args, templatePath, scratch, capt, ext, sniffErr, pw, dirs,
                   destDoc, destJson, copyv, escTitle, jfErr>>

\* Lines 209-226.
Escape(p) ==
    /\ pc[p] = "escape"
    /\ escTitle' = [escTitle EXCEPT ![p] = EscapeTitle(title[p])]
    /\ Goto(p, "fopen")
    /\ UNCHANGED <<args, templatePath, scratch, capt, ext, sniffErr, pw, dirs,
                   destDoc, destJson, incoming, copyv, jfErr>>

\* FopenJson that gives the sidecar to the user as soon as it is created.
FopenJson_Owned(p) ==
    /\ pc[p] = "fopen"
    /\ \/ /\ incoming' = [incoming EXCEPT ![destJson[p]] =
                                Normalize(CreateTrunc(@), pw[p], TRUE, TRUE)]
          /\ Goto(p, "fprintf")
       \/ /\ Return(p, FAILED, "failed to write json")
          /\ UNCHANGED incoming
    /\ UNCHANGED <<args, templatePath, scratch, capt, ext, sniffErr, pw, dirs,
                   destDoc, destJson, copyv, escTitle, jfErr>>

\* Lines 228-232: fopen(destJson, "w").
FopenJson(p) ==
    /\ pc[p] = "fopen"
    /\ \/ /\ incoming' = [incoming EXCEPT ![destJson[p]] = CreateTrunc(@)]
          /\ Goto(p, "fprintf")
       \/ /\ Return(p, FAILED, "failed to write json")      \* jf = NULL
          /\ UNCHANGED incoming
    /\ UNCHANGED <<args, templatePath, scratch, capt, ext, sniffErr, pw, dirs,
                   destDoc, destJson, copyv, escTitle, jfErr>>

\* Lines 233-241: fprintf and fclose.  All four fields reach the file, or the
\* stream fails and sets its error indicator with only k of them written:
\* none, or the first two.  The stream writes from offset 0 of the file it
\* opened, which is empty unless another stream has written to it since.
WriteJson(p) ==
    /\ pc[p] = "fprintf"
    /\ \E k \in {0, 2, 4} :
        /\ incoming' = [incoming EXCEPT ![destJson[p]].data =
                            WriteAt0(@, SubSeq(SidecarFields(destDoc[p], escTitle[p], user[p], job_id[p]), 1, k))]
        /\ jfErr' = [jfErr EXCEPT ![p] = (k < 4)]
    /\ Goto(p, "chown_json")
    /\ UNCHANGED <<args, templatePath, scratch, capt, ext, sniffErr, pw, dirs,
                   destDoc, destJson, copyv, escTitle>>

\* Lines 243-250.
ChownJson(p) ==
    /\ pc[p] = "chown_json"
    /\ \E chownOk \in BOOLEAN, chmodOk \in BOOLEAN :
        incoming' = [incoming EXCEPT ![destJson[p]] = Normalize(@, pw[p], chownOk, chmodOk)]
    /\ Return(p, AfterWrite(jfErr[p]), "queued for helper")
    /\ UNCHANGED <<args, templatePath, scratch, capt, ext, sniffErr, pw, dirs,
                   destDoc, destJson, copyv, escTitle, jfErr>>

----------------------------------------------------------------------------

Next ==
    \/ \E p \in Procs : Discovery(p)
    \/ \E p \in Procs : UsageError(p)
    \/ \E p \in Procs : MkTemp(p)
    \/ \E p \in Procs : CaptureRead(p)
    \/ \E p \in Procs : CaptureWrite(p)
    \/ \E p \in Procs : Sniff(p)
    \/ \E p \in Procs : GetPw(p)
    \/ \E p \in Procs : EnsureDirs(p)
    \/ \E p \in Procs : Rename(p)
    \/ \E p \in Procs : CopyOpen(p)
    \/ \E p \in Procs : CopyRead(p)
    \/ \E p \in Procs : CopyWrite(p)
    \/ \E p \in Procs : Unlink(p)
    \/ \E p \in Procs : ChownDoc(p)
    \/ \E p \in Procs : Escape(p)
    \/ \E p \in Procs : FopenJson(p)
    \/ \E p \in Procs : WriteJson(p)
    \/ \E p \in Procs : ChownJson(p)

Spec == Init /\ [][Next]_vars

----------------------------------------------------------------------------
(* One job at a time: the inputs of Init in which the second invocation is  *)
(* a discovery call, which leaves the job alone with the filesystem.        *)

InitOne ==
    /\ \E cfg \in {c \in Configs : c[2] = Discover} : InitArgs(cfg)
    /\ InitLocals

SpecOne == InitOne /\ [][Next]_vars

----------------------------------------------------------------------------
(* Two jobs with the same job identifier, as CUPS gives after its job       *)
(* counter was reset: main on the path where rename succeeds.  An           *)
(* invocation whose rename fails is not followed further here, because the  *)
(* descriptors copy_file holds on a destination that another invocation    *)
(* replaces are not part of this model's files.                             *)

InitCollide ==
    /\ InitArgs(<<Arg(6, 101, "alice", <<"a">>, <<"a">>),
                  Arg(6, 101, "alice", <<DQ>>, <<"b">>)>>)
    /\ InitLocals

NextCollide ==
    \/ \E p \in Procs : MkTemp(p)
    \/ \E p \in Procs : CaptureRead(p)
    \/ \E p \in Procs : CaptureWrite(p)
    \/ \E p \in Procs : Sniff(p)
    \/ \E p \in Procs : GetPw(p)
    \/ \E p \in Procs : EnsureDirs(p)
    \/ \E p \in Procs : Rename(p)
    \/ \E p \in Procs : ChownDoc(p)
    \/ \E p \in Procs : Escape(p)
    \/ \E p \in Procs : FopenJson(p)
    \/ \E p \in Procs : WriteJson(p)
    \/ \E p \in Procs : ChownJson(p)

SpecCollide == InitCollide /\ [][NextCollide]_vars

----------------------------------------------------------------------------
(* The two write loops step by step: the call of write(), which returns -1, *)
(* 0 or a number of bytes up to the rest of the chunk, and then the test of *)
(* the result and of the loop condition.  Every invocation that can take a  *)
(* step eventually takes one: the process is scheduled, and read() and      *)
(* write() return.                                                          *)

\* Line 132: wn = write(outfd, buffer + off, n - off).
CaptureWriteCall(p) ==
    /\ pc[p] = "write"
    /\ off[p] < Len(buffer[p])
    /\ \E r \in -1..(Len(buffer[p]) - off[p]) :
        /\ wn' = [wn EXCEPT ![p] = r]
        /\ scratch' = [scratch EXCEPT ![templatePath[p]].data =
                            @ \o Written(buffer[p], off[p], IF r < 0 THEN 0 ELSE r)]
    /\ Goto(p, "wrote")
    /\ UNCHANGED <<args, templatePath, inpos, buffer, off, total_written, ext, sniffErr,
                   pw, dirs, destDoc, destJson, incoming, copyv, escTitle, jfErr>>

\* CaptureWriteRet that calls write() again after an error.
CaptureWriteRet_Retry(p) ==
    /\ pc[p] = "wrote"
    /\ IF wn[p] < 0
       THEN /\ Goto(p, "write")
            /\ UNCHANGED <<off, total_written>>
       ELSE /\ off' = [off EXCEPT ![p] = @ + wn[p]]
            /\ total_written' = [total_written EXCEPT ![p] = @ + wn[p]]
            /\ Goto(p, IF off[p] + wn[p] < Len(buffer[p]) THEN "write" ELSE "read")
    /\ UNCHANGED <<args, templatePath, scratch, inpos, buffer, wn, ext, sniffErr,
                   pw, dirs, destDoc, destJson, incoming, copyv, escTitle, jfErr>>

\* Lines 133-140 and the loop test of line 131.
CaptureWriteRet(p) ==
    /\ pc[p] = "wrote"
    /\ IF wn[p] < 0
       THEN /\ Return(p, FAILED, "failed to write temp file")
            /\ UNCHANGED <<off, total_written>>
       ELSE /\ off' = [off EXCEPT ![p] = @ + wn[p]]
            /\ total_written' = [total_written EXCEPT ![p] = @ + wn[p]]
            /\ Goto(p, IF off[p] + wn[p] < Len(buffer[p]) THEN "write" ELSE "read")
    /\ UNCHANGED <<args, templatePath, scratch, inpos, buffer, wn, ext, sniffErr,
                   pw, dirs, destDoc, destJson, incoming, copyv, escTitle, jfErr>>

\* Line 67: w = write(out, buf + off, n - off).
CopyWriteCall(p) ==
    /\ pc[p] = "copy_write"
    /\ coff[p] < Len(cbuf[p])
    /\ \E r \in -1..(Len(cbuf[p]) - coff[p]) :
        /\ w' = [w EXCEPT ![p] = r]
        /\ incoming' = [incoming EXCEPT ![destDoc[p]].data =
                            @ \o Written(cbuf[p], coff[p], IF r < 0 THEN 0 ELSE r)]
    /\ Goto(p, "copy_wrote")
    /\ UNCHANGED <<args, templatePath, scratch, capt, ext, sniffErr, pw, dirs,
                   destDoc, destJson, cpos, cbuf, coff, escTitle, jfErr>>

\* Lines 68-73 and the loop test of line 66 (and 197-200).
CopyWriteRet(p) ==
    /\ pc[p] = "copy_wrote"
    /\ IF w[p] < 0
       THEN /\ Return(p, FAILED, "failed to move/copy")
            /\ UNCHANGED coff
       ELSE /\ coff' = [coff EXCEPT ![p] = @ + w[p]]
            /\ Goto(p, IF coff[p] + w[p] < Len(cbuf[p]) THEN "copy_write" ELSE "copy_read")
    /\ UNCHANGED <<args, templatePath, scratch, capt, ext, sniffErr, pw, dirs,
                   destDoc, destJson, incoming, cpos, cbuf, w, escTitle, jfErr>>

InitTerm ==
    /\ \E in \in SeqsUpTo({"%"}, MaxPayload) :
            InitArgs(<<Arg(6, 101, "alice", <<"a">>, in), Discover>>)
    /\ InitLocals

Run(p) ==
    \/ MkTemp(p) \/ CaptureRead(p) \/ CaptureWriteCall(p) \/ CaptureWriteRet(p)
    \/ Sniff(p) \/ GetPw(p) \/ EnsureDirs(p) \/ Rename(p)
    \/ CopyOpen(p) \/ CopyRead(p) \/ CopyWriteCall(p) \/ CopyWriteRet(p)

NextTerm ==
    \/ \E p \in Procs : MkTemp(p)
    \/ \E p \in Procs : CaptureRead(p)
    \/ \E p \in Procs : CaptureWriteCall(p)
    \/ \E p \in Procs : CaptureWriteRet(p)
    \/ \E p \in Procs : Sniff(p)
    \/ \E p \in Procs : GetPw(p)
    \/ \E p \in Procs : EnsureDirs(p)
    \/ \E p \in Procs : Rename(p)
    \/ \E p \in Procs : CopyOpen(p)
    \/ \E p \in Procs : CopyRead(p)
    \/ \E p \in Procs : CopyWriteCall(p)
    \/ \E p \in Procs : CopyWriteRet(p)

SpecTerm == InitTerm /\ [][NextTerm]_vars /\ \A p \in Procs : WF_vars(Run(p))

----------------------------------------------------------------------------
(* The capture loop and the sniff alone, over every byte source up to       *)
(* MaxPayload bytes: main up to line 163.                                   *)

Payloads == SeqsUpTo({"%", "!", "P", "S"}, MaxPayload)

InitCapture ==
    /\ \E c \in {6, 7}, in \in Payloads :
            InitArgs(<<Arg(c, 101, "alice", <<"a">>, in), Discover>>)
    /\ InitLocals

NextCapture ==
    \/ \E p \in Procs : MkTemp(p)
    \/ \E p \in Procs : CaptureRead(p)
    \/ \E p \in Procs : CaptureWrite(p)
    \/ \E p \in Procs : Sniff(p)

SpecCapture == InitCapture /\ [][NextCapture]_vars

----------------------------------------------------------------------------
(* The escape loop and the sidecar, over every title up to MaxTitle         *)
(* characters: main from line 209, entered after job 101 of alice, two     *)
(* bytes long, was staged by rename and given to her.                       *)

Titles == SeqsUpTo(TitleChars, MaxTitle)

InitEsc ==
    /\ \E t \in Titles : InitArgs(<<Arg(6, 101, "alice", t, <<"a", "b">>), Discover>>)
    /\ pc = [p \in Procs |-> IF p = 1 THEN "escape" ELSE "start"]
    /\ ret = [p \in Procs |-> "none"]
    /\ errlog = [p \in Procs |-> ""]
    /\ templatePath = [p \in Procs |-> IF p = 1 THEN "t1" ELSE "none"]
    /\ scratch = [nm \in TmpNames |-> NoFile]
    /\ inpos = [p \in Procs |-> IF p = 1 THEN 2 ELSE 0]
    /\ buffer = [p \in Procs |-> <<>>]
    /\ off = [p \in Procs |-> IF p = 1 THEN 2 ELSE 0]
    /\ total_written = [p \in Procs |-> IF p = 1 THEN 2 ELSE 0]
    /\ wn = [p \in Procs |-> 0]
    /\ ext = [p \in Procs |-> "pdf"]
    /\ sniffErr = [p \in Procs |-> FALSE]
    /\ pw = [p \in Procs |-> IF p = 1 THEN "alice" ELSE "null"]
    /\ dirs = [d \in 1..NDirs |-> "01777"]
    /\ destDoc = [p \in Procs |-> IF p = 1 THEN DocPath(101, 0, "pdf") ELSE NoPath]
    /\ destJson = [p \in Procs |-> IF p = 1 THEN JsonPath(101, 0) ELSE NoPath]
    /\ incoming = [path \in Paths |->
                     IF path = DocPath(101, 0, "pdf") THEN File(<<"a", "b">>, "alice", "0644")
                     ELSE NoFile]
    /\ cpos = [p \in Procs |-> 0]
    /\ cbuf = [p \in Procs |-> <<>>]
    /\ coff = [p \in Procs |-> 0]
    /\ w = [p \in Procs |-> 0]
    /\ escTitle = [p \in Procs |-> <<>>]
    /\ jfErr = [p \in Procs |-> FALSE]

NextEsc ==
    \/ \E p \in Procs : Escape(p)
    \/ \E p \in Procs : FopenJson(p)
    \/ \E p \in Procs : WriteJson(p)
    \/ \E p \in Procs : ChownJson(p)

SpecEsc == InitEsc /\ [][NextEsc]_vars

----------------------------------------------------------------------------
(* Properties *)

JobMode(p) == argc[p] = 6 \/ argc[p] = 7

\* The files under the queue root that carry the job identifier of p.
ArtifactsOf(p) == {path \in Paths : path.job = job_id[p] /\ Exists(incoming[path])}
SidecarsOf(p) == {path \in ArtifactsOf(p) : path.ext = "json"}

\* The descriptor p's sidecar is meant to hold.
OwnFields(p) == SidecarFields(destDoc[p], escTitle[p], user[p], job_id[p])

\* The inverse of the escaping rule; "?" marks what the rule cannot produce.
Decode(c) ==
    IF c = DQ THEN DQ
    ELSE IF c = BSL THEN BSL
    ELSE IF c = "n" THEN NL
    ELSE IF c = "r" THEN CR
    ELSE IF c = "t" THEN TAB
    ELSE "?"

RECURSIVE Unescape(_)
Unescape(e) ==
    IF e = <<>> THEN <<>>
    ELSE IF Head(e) = BSL
    THEN IF Len(e) = 1 THEN <<"?">>
         ELSE <<Decode(e[2])>> \o Unescape(SubSeq(e, 3, Len(e)))
    ELSE <<Head(e)>> \o Unescape(Tail(e))

\* A validly escaped string: read from the left, every backslash opens a
\* pair whose second character is one of " \ n r t, and no quote or
\* control character stands outside a pair.
RECURSIVE WellFormed(_)
WellFormed(e) ==
    IF e = <<>> THEN TRUE
    ELSE IF Head(e) = BSL
    THEN /\ Len(e) >= 2
         /\ e[2] \in {DQ, BSL, "n", "r", "t"}
         /\ WellFormed(SubSeq(e, 3, Len(e)))
    ELSE /\ Head(e) \notin {DQ, NL, CR, TAB}
         /\ WellFormed(Tail(e))

\* The length of the title escaped in full.
RECURSIVE FullEscLen(_)
FullEscLen(t) ==
    IF t = <<>> THEN 0
    ELSE (IF Head(t) \in {DQ, BSL, NL, CR, TAB} THEN 2 ELSE 1) + FullEscLen(Tail(t))

\* The escaped titles to look at: the buffer once the loop has run, and the
\* title field of a sidecar that holds one.
Escaped(p) ==
    \/ pc[p] \in {"fopen", "fprintf", "chown_json"}
    \/ pc[p] = "done" /\ errlog[p] \in {"failed to write json", "queued for helper"}

HasTitleField(p) == destJson[p] # NoPath /\ Len(incoming[destJson[p]].data) >= 2

----------------------------------------------------------------------------
\* C1 (as amended): a job-mode invocation that has returned either returned
\* success with its document, holding its payload, and its sidecar both in
\* Incoming, or returned failure with no sidecar of its job in Incoming, so
\* that no complete queue entry is left; the document may remain.
C1_AllOrNoEntry ==
    \A p \in Procs :
        (JobMode(p) /\ pc[p] = "done") =>
            \/ /\ ret[p] = OK
               /\ Exists(incoming[destDoc[p]])
               /\ incoming[destDoc[p]].data = input[p]
               /\ Exists(incoming[destJson[p]])
            \/ /\ ret[p] = FAILED
               /\ SidecarsOf(p) = {}

\* C1 as stated: failure leaves neither the document nor the sidecar.
C1_Original ==
    \A p \in Procs :
        (JobMode(p) /\ pc[p] = "done") =>
            \/ /\ ret[p] = OK
               /\ Exists(incoming[destDoc[p]])
               /\ Exists(incoming[destJson[p]])
            \/ /\ ret[p] = FAILED
               /\ ArtifactsOf(p) = {}

\* The sidecar could not be opened after the document was staged whole.
C1_Witness ==
    \E p \in Procs :
        /\ pc[p] = "done" /\ ret[p] = FAILED /\ errlog[p] = "failed to write json"
        /\ ArtifactsOf(p) = {destDoc[p]}
        /\ incoming[destDoc[p]].data = input[p]
        /\ input[p] # <<>>

----------------------------------------------------------------------------
\* C2: whenever the sidecar of an invocation exists in Incoming, its
\* document exists there and holds the whole captured payload, on the rename
\* path and on the copy path alike.
C2_SidecarAfterDocument ==
    \A p \in Procs :
        (destJson[p] # NoPath /\ Exists(incoming[destJson[p]])) =>
            /\ Exists(incoming[destDoc[p]])
            /\ incoming[destDoc[p]].data = input[p]

\* The sidecar has just been created on the copy path (the temp file is
\* still there), beside the whole document.
C2_Witness ==
    \E p \in Procs :
        /\ pc[p] = "fprintf"
        /\ Exists(incoming[destJson[p]])
        /\ Exists(scratch[templatePath[p]])
        /\ Len(input[p]) >= 2
        /\ incoming[destDoc[p]].data = input[p]

----------------------------------------------------------------------------
\* C3: when rename and the fallback copy both fail, main returns failure and
\* no destination document exists in Incoming.
C3_FailedStagingLeavesNothing ==
    \A p \in Procs :
        (pc[p] = "done" /\ errlog[p] = "failed to move/copy") =>
            /\ ret[p] = FAILED
            /\ ~Exists(incoming[destDoc[p]])

----------------------------------------------------------------------------
\* C4: an invocation whose user does not resolve returns failure, and at no
\* point has a file of its job in Incoming or a destination path formed.
C4_UnknownUserFatal ==
    \A p \in Procs :
        (JobMode(p) /\ user[p] \notin KnownUsers) =>
            /\ pc[p] = "done" => ret[p] = FAILED
            /\ pc[p] \in {"start", "read", "write", "sniff", "getpw", "done"}
            /\ destDoc[p] = NoPath /\ destJson[p] = NoPath
            /\ ArtifactsOf(p) = {}

\* The payload was captured whole and the lookup then failed.
C4_Witness ==
    \E p \in Procs :
        /\ user[p] \notin KnownUsers
        /\ pc[p] = "done" /\ ret[p] = FAILED /\ errlog[p] = "getpwnam failed"
        /\ scratch[templatePath[p]].data = input[p]
        /\ input[p] # <<>>

----------------------------------------------------------------------------
\* C5: when the sidecar's stream reports an error (fprintf or fclose could
\* not write the four fields), main returns failure.
C5_SidecarWriteErrorFails ==
    \A p \in Procs :
        (pc[p] = "done" /\ jfErr[p]) => ret[p] = FAILED

----------------------------------------------------------------------------
\* C6: while the capture loop runs the temp file is the part of the input
\* written so far, and the counter is its length; when the loop has ended
\* without error the temp file is the whole input, byte for byte, and the
\* counter is the number of bytes read.
C6_CaptureConservation ==
    \A p \in Procs :
        /\ pc[p] \in {"read", "write"} =>
            /\ IsPrefix(scratch[templatePath[p]].data, input[p])
            /\ total_written[p] = Len(scratch[templatePath[p]].data)
            /\ total_written[p] = inpos[p] - (Len(buffer[p]) - off[p])
        /\ pc[p] \in {"sniff", "getpw"} =>
            /\ scratch[templatePath[p]].data = input[p]
            /\ total_written[p] = Len(input[p])
            /\ inpos[p] = Len(input[p])

\* A source of the greatest length was captured whole.
C6_Witness ==
    \E p \in Procs :
        /\ pc[p] = "sniff"
        /\ Len(input[p]) = MaxPayload
        /\ scratch[templatePath[p]].data = input[p]
        /\ total_written[p] = MaxPayload

----------------------------------------------------------------------------
\* C7: the extension of the staged document is ps exactly when the sniff
\* could read the temp file and the payload begins with %!PS; in every other
\* case it is pdf.  The sniff leaves the temp file as it is, and neither the
\* extension nor the destination path changes once chosen.
C7_ExtState ==
    \A p \in Procs :
        destDoc[p] # NoPath =>
            /\ destDoc[p].ext = ext[p]
            /\ ext[p] \in {"ps", "pdf"}
            /\ ext[p] = "ps" <=> (~sniffErr[p] /\ IsPrefix(PS_MAGIC, input[p]))
            /\ \A path \in ArtifactsOf(p) : path.ext # "json" => path = destDoc[p]

C7_ExtStep ==
    \A p \in Procs :
        /\ (pc[p] = "sniff" /\ pc'[p] # "sniff") => scratch' = scratch
        /\ pc[p] \notin {"start", "read", "write", "sniff"} => ext'[p] = ext[p]
        /\ destDoc[p] # NoPath => destDoc'[p] = destDoc[p]

C7_FormatClassification == [](C7_ExtState) /\ [][C7_ExtStep]_vars

\* A PostScript payload longer than the marker is staged with extension ps.
C7_Witness ==
    \E p \in Procs :
        /\ destDoc[p] # NoPath
        /\ Exists(incoming[destDoc[p]])
        /\ destDoc[p].ext = "ps"
        /\ Len(input[p]) > Len(PS_MAGIC)

----------------------------------------------------------------------------
\* C8: two invocations with distinct job identifiers that got the same
\* second never hold the same temp file while they capture and stage, and
\* once both have returned success their document paths differ, their
\* sidecar paths differ, each document holds its own payload and each
\* sidecar holds its own job's fields (all four unless its stream failed).
Working(p) ==
    pc[p] \in {"read", "write", "sniff", "getpw", "dirs", "rename",
               "copy_open", "copy_read", "copy_write", "unlink"}

C8_DistinctJobsDoNotCollide ==
    \A p \in Procs, q \in Procs :
        (p # q /\ JobMode(p) /\ JobMode(q) /\ job_id[p] # job_id[q]) =>
            /\ (Working(p) /\ Working(q)) => templatePath[p] # templatePath[q]
            /\ (pc[p] = "done" /\ ret[p] = OK /\ pc[q] = "done" /\ ret[q] = OK
                    /\ destDoc[p].ts = destDoc[q].ts) =>
                /\ destDoc[p] # destDoc[q]
                /\ destJson[p] # destJson[q]
                /\ Exists(incoming[destDoc[p]])
                /\ incoming[destDoc[p]].data = input[p]
                /\ Exists(incoming[destJson[p]])
                /\ IsPrefix(incoming[destJson[p]].data, OwnFields(p))
                /\ ~jfErr[p] => incoming[destJson[p]].data = OwnFields(p)

\* Both jobs are queued in the same second with their sidecars written whole.
C8_Witness ==
    \E p \in Procs, q \in Procs :
        /\ p # q /\ JobMode(p) /\ JobMode(q) /\ job_id[p] # job_id[q]
        /\ pc[p] = "done" /\ ret[p] = OK /\ pc[q] = "done" /\ ret[q] = OK
        /\ destDoc[p].ts = destDoc[q].ts
        /\ input[p] # input[q]
        /\ incoming[destDoc[p]].data = input[p]
        /\ incoming[destDoc[q]].data = input[q]
        /\ ~jfErr[p] /\ ~jfErr[q]

----------------------------------------------------------------------------
\* C9: the escaped title, in the buffer and in the sidecar's title field,
\* unescapes to a prefix of the title, and to the whole title whenever the
\* title escaped in full fits the buffer with its terminator.
C9_EscapeRoundTrip ==
    \A p \in Procs :
        /\ Escaped(p) =>
            /\ IsPrefix(Unescape(escTitle[p]), title[p])
            /\ FullEscLen(title[p]) <= EscCap - 1 => Unescape(escTitle[p]) = title[p]
        /\ HasTitleField(p) =>
            /\ IsPrefix(Unescape(incoming[destJson[p]].data[2]), title[p])
            /\ FullEscLen(title[p]) <= EscCap - 1 =>
                    Unescape(incoming[destJson[p]].data[2]) = title[p]

\* A title with an escape was cut short: the sidecar holds a proper prefix.
C9_Witness ==
    \E p \in Procs :
        /\ HasTitleField(p)
        /\ FullEscLen(title[p]) > EscCap - 1
        /\ BSL \in {incoming[destJson[p]].data[2][i] : i \in 1..Len(incoming[destJson[p]].data[2])}
        /\ Unescape(incoming[destJson[p]].data[2]) # title[p]
        /\ IsPrefix(Unescape(incoming[destJson[p]].data[2]), title[p])

----------------------------------------------------------------------------
\* C10: the escaped title never passes EscCap - 1 characters and is validly
\* escaped: read from the left every backslash opens a complete pair ending
\* in one of " \ n r t, so none is left unpaired at the end.
C10_TruncationWellFormed ==
    \A p \in Procs :
        Escaped(p) =>
            /\ Len(escTitle[p]) <= EscCap - 1
            /\ WellFormed(escTitle[p])

\* The loop stopped before an escape pair that had no room, one short of the
\* limit.
C10_Witness ==
    \E p \in Procs :
        /\ Escaped(p)
        /\ Len(escTitle[p]) = EscCap - 2
        /\ FullEscLen(title[p]) > EscCap - 1
        /\ Len(Unescape(escTitle[p])) < Len(title[p])
        /\ title[p][Len(Unescape(escTitle[p])) + 1] \in {DQ, BSL, NL, CR, TAB}

----------------------------------------------------------------------------
\* C11: a failing chown or chmod of the document or of the sidecar stops
\* nothing: the causes of a failure return are the ones main reports, none
\* of them about ownership, and an invocation that has returned with its
\* sidecar in Incoming returned success with its document there, holding
\* the payload, whoever owns the two files and whatever their modes.
FailureCauses ==
    {"invalid argc", "failed to create temp file", "failed to open input file",
     "failed to read input data", "failed to write temp file", "getpwnam failed",
     "failed to create dir", "failed to move/copy", "failed to write json"}

C11_OwnershipNonFatal ==
    \A p \in Procs :
        (JobMode(p) /\ pc[p] = "done") =>
            /\ ret[p] = FAILED => errlog[p] \in FailureCauses
            /\ (destJson[p] # NoPath /\ Exists(incoming[destJson[p]])) =>
                    /\ ret[p] = OK
                    /\ Exists(incoming[destDoc[p]])
                    /\ incoming[destDoc[p]].data = input[p]

\* The user resolved, every chown and the chmod of the renamed document
\* failed, and the job is queued all the same.
C11_Witness ==
    \E p \in Procs :
        /\ pc[p] = "done" /\ ret[p] = OK
        /\ pw[p] = user[p]
        /\ incoming[destDoc[p]].owner = BACKEND
        /\ incoming[destDoc[p]].mode = "0600"
        /\ incoming[destJson[p]].owner = BACKEND
        /\ incoming[destJson[p]].data = OwnFields(p)

----------------------------------------------------------------------------
\* The filesystem as the model has it: scratch directory, queue directories
\* and the files under the queue root.
NothingOnDisk ==
    /\ \A nm \in TmpNames : ~Exists(scratch[nm])
    /\ \A d \in 1..NDirs : dirs[d] = "absent"
    /\ \A path \in Paths : ~Exists(incoming[path])

\* C12: an invocation without arguments returns success in its first step,
\* and that step changes nothing on disk: no temp file, no queue directory
\* made or chmod-ed, no file under the queue root; it never forms a temp or
\* a destination path.
C12_DiscoveryState ==
    \A p \in Procs :
        argc[p] = 1 =>
            /\ pc[p] \in {"start", "done"}
            /\ pc[p] = "done" => ret[p] = OK
            /\ templatePath[p] = "none" /\ destDoc[p] = NoPath /\ destJson[p] = NoPath

C12_DiscoveryStep ==
    \A p \in Procs :
        (argc[p] = 1 /\ pc'[p] # pc[p]) =>
            /\ pc[p] = "start" /\ pc'[p] = "done" /\ ret'[p] = OK
            /\ scratch' = scratch /\ dirs' = dirs /\ incoming' = incoming

C12_DiscoveryNoEffect == [](C12_DiscoveryState) /\ [][C12_DiscoveryStep]_vars

\* Discovery has returned and the disk is as empty as it was.
C12_Witness ==
    \E p \in Procs :
        /\ argc[p] = 1 /\ pc[p] = "done" /\ ret[p] = OK
        /\ NothingOnDisk

----------------------------------------------------------------------------
\* C13: an invocation whose argument count is none of 0, 5, 6 (argc none of
\* 1, 6, 7) returns failure in its first step, and that step changes
\* nothing on disk.
C13_UsageState ==
    \A p \in Procs :
        argc[p] \notin {1, 6, 7} =>
            /\ pc[p] \in {"start", "done"}
            /\ pc[p] = "done" => ret[p] = FAILED
            /\ templatePath[p] = "none" /\ destDoc[p] = NoPath /\ destJson[p] = NoPath

C13_UsageStep ==
    \A p \in Procs :
        (argc[p] \notin {1, 6, 7} /\ pc'[p] # pc[p]) =>
            /\ pc[p] = "start" /\ pc'[p] = "done" /\ ret'[p] = FAILED
            /\ scratch' = scratch /\ dirs' = dirs /\ incoming' = incoming

C13_UsageNoEffect == [](C13_UsageState) /\ [][C13_UsageStep]_vars

\* Seven arguments were given: failure, and the disk is as empty as it was.
C13_Witness ==
    \E p \in Procs :
        /\ argc[p] = 8 /\ pc[p] = "done" /\ ret[p] = FAILED
        /\ NothingOnDisk

----------------------------------------------------------------------------
\* C14: in every state, so at every point where a crash can stop main, the
\* destination document is absent, or holds the whole payload, or main is in
\* (or has failed in) the fallback copy that follows a failed rename, where
\* the destination holds the part of the payload copied so far.  Up to and
\* including the call of rename the destination is absent.
OnCopyPath(p) ==
    \/ pc[p] \in {"copy_read", "copy_write"}
    \/ pc[p] = "done" /\ errlog[p] = "failed to move/copy"

C14_CrashConsistency ==
    \A p \in Procs :
        (JobMode(p) /\ destDoc[p] # NoPath) =>
            /\ pc[p] = "rename" => ~Exists(incoming[destDoc[p]])
            /\ Exists(incoming[destDoc[p]]) =>
                    \/ incoming[destDoc[p]].data = input[p]
                    \/ OnCopyPath(p) /\ IsPrefix(incoming[destDoc[p]].data, input[p])

\* The fallback copy has written one byte of a longer payload.
C14_Witness ==
    \E p \in Procs :
        /\ pc[p] = "copy_write"
        /\ Len(incoming[destDoc[p]].data) = 1
        /\ Len(input[p]) >= 2
        /\ scratch[templatePath[p]].data = input[p]

----------------------------------------------------------------------------
\* C15: from the end of the capture until main returns, and after it has
\* returned, the whole payload is in the temp file or in the destination
\* document.  The temp file is gone only once the destination holds the
\* whole payload (after rename, or after the copy was complete); when rename
\* and copy have both failed the temp file is still there, whole.
Captured(p) ==
    \/ pc[p] \in {"sniff", "getpw", "dirs", "rename", "copy_open", "copy_read",
                  "copy_write", "unlink", "chown_doc", "escape", "fopen",
                  "fprintf", "chown_json"}
    \/ pc[p] = "done" /\ errlog[p] \in {"getpwnam failed", "failed to create dir",
                                         "failed to move/copy", "failed to write json",
                                         "queued for helper"}

InTemp(p) ==
    /\ Exists(scratch[templatePath[p]])
    /\ scratch[templatePath[p]].data = input[p]

InDest(p) ==
    /\ destDoc[p] # NoPath
    /\ Exists(incoming[destDoc[p]])
    /\ incoming[destDoc[p]].data = input[p]

C15_PayloadNeverLost ==
    \A p \in Procs :
        (JobMode(p) /\ Captured(p)) =>
            /\ InTemp(p) \/ InDest(p)
            /\ pc[p] \in {"sniff", "getpw", "dirs", "rename", "copy_open",
                          "copy_read", "copy_write"} => InTemp(p)
            /\ pc[p] \in {"unlink", "chown_doc", "escape", "fopen", "fprintf",
                          "chown_json"} => InDest(p)
            /\ (pc[p] = "done" /\ ret[p] = FAILED /\ errlog[p] # "failed to write json")
                    => InTemp(p)
            /\ (pc[p] = "done" /\ errlog[p] \in {"failed to write json", "queued for helper"})
                    => InDest(p)

\* Rename failed and the copy broke off part way: the destination holds one
\* byte, the temp file the whole payload.
C15_Witness ==
    \E p \in Procs :
        /\ pc[p] = "done" /\ ret[p] = FAILED /\ errlog[p] = "failed to move/copy"
        /\ InTemp(p)
        /\ Len(input[p]) >= 2
        /\ Len(incoming[destDoc[p]].data) = 1

----------------------------------------------------------------------------
\* The components main goes through, numbered in the order of the source:
\* capture, sniff, identity resolution, directories, staging, ownership of
\* the document, sidecar, ownership of the sidecar, return.
Rank(l) ==
    CASE l = "start" -> 0
      [] l \in {"read", "write"} -> 1
      [] l = "sniff" -> 2
      [] l = "getpw" -> 3
      [] l = "dirs" -> 4
      [] l \in {"rename", "copy_open", "copy_read", "copy_write", "unlink"} -> 5
      [] l = "chown_doc" -> 6
      [] l \in {"escape", "fopen", "fprintf"} -> 7
      [] l = "chown_json" -> 8
      [] l = "done" -> 9

\* C17 (as amended): main takes its components in the order sniff, identity
\* resolution, document staging, ownership of the document, sidecar write,
\* ownership of the sidecar, skipping none on the way to success.  The user
\* is resolved before anything is staged; the document is given to the user
\* only once it is staged whole, and before the sidecar is created; the
\* sidecar is given to the user only after it was written.
C17_OrderState ==
    \A p \in Procs :
        JobMode(p) =>
            /\ pw[p] # "null" => (pw[p] = user[p] /\ Rank(pc[p]) >= 4)
            /\ destDoc[p] # NoPath =>
                    /\ pw[p] = user[p]
                    /\ Exists(incoming[destDoc[p]]) => Rank(pc[p]) >= 5
                    /\ incoming[destDoc[p]].owner \notin {"none", BACKEND} =>
                            (incoming[destDoc[p]].data = input[p] /\ Rank(pc[p]) >= 7)
                    /\ Exists(incoming[destJson[p]]) =>
                            (pc[p] \in {"fprintf", "chown_json", "done"}
                                /\ incoming[destDoc[p]].data = input[p])
                    /\ incoming[destJson[p]].data # <<>> => Rank(pc[p]) >= 8
                    /\ incoming[destJson[p]].owner \notin {"none", BACKEND} =>
                            (pc[p] = "done" /\ ret[p] = OK)

C17_OrderStep ==
    \A p \in Procs :
        (JobMode(p) /\ pc'[p] # pc[p]) =>
            /\ Rank(pc'[p]) >= Rank(pc[p])
            /\ pc'[p] # "done" => Rank(pc'[p]) <= Rank(pc[p]) + 1
            /\ (pc'[p] = "done" /\ ret'[p] = OK) => pc[p] = "chown_json"

----------------------------------------------------------------------------
\* The directories of the three later stages.
LaterStages == {d \in 1..NDirs : DirNames[d] \in {"Processing", "Done", "Failed"}}

----------------------------------------------------------------------------
\* C16: two invocations with the same job identifier, the same second and
\* the same detected format have the same document path and the same
\* sidecar path, so that the queue root never holds more than one document
\* and one sidecar of that identifier; a rename that succeeds puts its own
\* payload at the path whatever was there, and when both have returned
\* success the one document is the payload of one of the two.
Collide(p, q) ==
    /\ p # q /\ JobMode(p) /\ JobMode(q) /\ job_id[p] = job_id[q]
    /\ destDoc[p] # NoPath /\ destDoc[q] # NoPath
    /\ destDoc[p].ts = destDoc[q].ts /\ ext[p] = ext[q]

C16_CollideState ==
    \A p \in Procs, q \in Procs :
        Collide(p, q) =>
            /\ destDoc[p] = destDoc[q]
            /\ destJson[p] = destJson[q]
            /\ ArtifactsOf(p) \subseteq {destDoc[p], destJson[p]}
            /\ (pc[p] = "done" /\ ret[p] = OK /\ pc[q] = "done" /\ ret[q] = OK) =>
                    /\ ArtifactsOf(p) = {destDoc[p], destJson[p]}
                    /\ incoming[destDoc[p]].data \in {input[p], input[q]}

C16_CollideStep ==
    \A p \in Procs :
        (pc[p] = "rename" /\ pc'[p] = "chown_doc") =>
            /\ Exists(incoming'[destDoc[p]])
            /\ incoming'[destDoc[p]].data = input[p]

C16_SameIdCollision == [](C16_CollideState) /\ [][C16_CollideStep]_vars

\* Both returned success and one entry is left: the document is the payload
\* of one job, the sidecar, written whole, describes the other.
C16_Witness ==
    \E p \in Procs, q \in Procs :
        /\ Collide(p, q)
        /\ pc[p] = "done" /\ ret[p] = OK /\ pc[q] = "done" /\ ret[q] = OK
        /\ ArtifactsOf(p) = {destDoc[p], destJson[p]}
        /\ input[p] # input[q] /\ OwnFields(p) # OwnFields(q)
        /\ incoming[destDoc[p]].data = input[q]
        /\ incoming[destJson[p]].data = OwnFields(p)

----------------------------------------------------------------------------
\* The two loops are behind main: it has returned, or the staging is done.
LoopsOver(p) == pc[p] \in {"done", "unlink", "chown_doc"}

====
